---- MODULE Spec2Model ----
(***************************************************************************)
(* exitmap's EventHandler (src/eventhandler.py).                           *)
(*                                                                         *)
(* Two threads of one process share the EventHandler object: the          *)
(* dispatcher thread, which the controller library drives by calling      *)
(* newEvent once per Tor event, and the consumer thread started by        *)
(* __init__, which runs queueReader.  Probing modules run in processes of  *)
(* their own and report (circuit ID, sockname) on the IPC queue.  The     *)
(* attachers dictionary is read and written by both threads without a     *)
(* lock, so each dictionary operation is a step of its own.                *)
(***************************************************************************)
EXTENDS Integers, Sequences, FiniteSets, Bags, TLC

\* A scan is explored up to this size: the circuits it requests plus the
\* connections its probing modules open.
MaxLoad == 3

None == "None"
CircuitIDs == <<"A", "B", "C", "D">>
StreamIDs == <<"s1", "s2", "s3", "s4">>
Ports == {5000, 6000}
\* What the source port extraction yields for an event without a port.
NoPort == 0

VARIABLES
    stats,            \* self.stats: totalCircuits, successfulCircuits, failedCircuits
    finishedStreams,  \* self.finishedStreams
    attachers,        \* self.attachers: port -> partial(_attachStream, ...)
    queue,            \* self.queue
    socketsocket,     \* the module global socket.socket
    mysocksTag,       \* the circuit ID last given to mysocks.setqueue
    procs,            \* the processes started for probing modules
    torCtrl,          \* the attach_stream calls the controller received
    exited,           \* exit(0) was called
    dpc, ev, raised, checked,              \* dispatcher thread
    cpc, cmsg,                             \* consumer thread
    circ, streams,                         \* the Tor daemon and the workers' connections
    raced,            \* history: ports both threads worked on at once
    observed,         \* history: per port, the stream IDs newStream took to the dictionary
    consumed          \* history: per port, the circuit IDs queueReader took to the dictionary

vars == <<stats, finishedStreams, attachers, queue, socketsocket, mysocksTag,
          procs, torCtrl, exited, dpc, ev, raised, checked,
          cpc, cmsg, circ, streams, raced, observed, consumed>>

----------------------------------------------------------------------------
(* The object's fields seen as one record, so that a method is a function  *)
(* from the fields before the call to the fields after it.                 *)

Mem ==
    [stats |-> stats, finishedStreams |-> finishedStreams,
     attachers |-> attachers, queue |-> queue, socketsocket |-> socketsocket,
     mysocksTag |-> mysocksTag, procs |-> procs, torCtrl |-> torCtrl,
     exited |-> exited, checked |-> checked]

Commit(m) ==
    /\ stats' = m.stats
    /\ finishedStreams' = m.finishedStreams
    /\ attachers' = m.attachers
    /\ queue' = m.queue
    /\ socketsocket' = m.socketsocket
    /\ mysocksTag' = m.mysocksTag
    /\ procs' = m.procs
    /\ torCtrl' = m.torCtrl
    /\ exited' = m.exited
    /\ checked' = m.checked

ourStreamEvents == {"NEW", "NEWRESOLVE", "CLOSED", "FAILED", "DETACHED"}
ourCircuitEvents == {"BUILT", "FAILED", "CLOSED"}

Sentinel == <<None, None>>

\* dict operations
has_key(d, k) == k \in DOMAIN d
setitem(d, k, v) == [x \in DOMAIN d \cup {k} |-> IF x = k THEN v ELSE d[x]]
delitem(d, k) == [x \in DOMAIN d \ {k} |-> d[x]]

\* functools.partial(self._attachStream, **kw): the keywords bound so far
partial(streamID, circuitID) == [streamID |-> streamID, circuitID |-> circuitID]

\* As callKeywords, with the keywords bound by partial() lost.
callKeywords_Unbound(attacher, streamID, circuitID) ==
    [streamID |-> streamID, circuitID |-> circuitID]

\* attacher(**kw): keywords of the call override the bound ones
callKeywords(attacher, streamID, circuitID) ==
    [streamID |-> IF streamID # None THEN streamID ELSE attacher.streamID,
     circuitID |-> IF circuitID # None THEN circuitID ELSE attacher.circuitID]

\* _attachStream: the controller receives the command; a rejection
\* (stem.OperationFailed) is logged and goes no further.
_attachStream(m, streamID, circuitID, accepted, port) ==
    [m EXCEPT !.torCtrl = @ (+) SetToBag({[streamID |-> streamID,
                                           circuitID |-> circuitID,
                                           ok |-> accepted,
                                           port |-> port]})]

circsDone(m) ==
    m.stats.failedCircuits + m.stats.successfulCircuits = m.stats.totalCircuits

\* As streamsDone, with > for >=.
streamsDone_Strict(m) == m.finishedStreams > m.stats.successfulCircuits

streamsDone(m) == m.finishedStreams >= m.stats.successfulCircuits

\* mysocks._orgsocket: the socket class the interpreter started with, which
\* is also what socket.socket names when the handler is constructed.
_orgsocket == "socket"

\* As isFinished, without the sentinel put on the queue.
isFinished_NoSentinel(m) ==
    IF circsDone(m) /\ streamsDone(m)
    THEN [m EXCEPT !.socketsocket = _orgsocket,
                   !.exited = TRUE,
                   !.checked = TRUE]
    ELSE [m EXCEPT !.checked = TRUE]

\* As isFinished, without the streams' half of the condition.
isFinished_CircuitsOnly(m) ==
    IF circsDone(m)
    THEN [m EXCEPT !.socketsocket = _orgsocket,
                   !.queue = Append(@, Sentinel),
                   !.exited = TRUE,
                   !.checked = TRUE]
    ELSE [m EXCEPT !.checked = TRUE]

isFinished(m) ==
    IF circsDone(m) /\ streamsDone(m)
    THEN [m EXCEPT !.socketsocket = _orgsocket,
                   !.queue = Append(@, Sentinel),
                   !.exited = TRUE,
                   !.checked = TRUE]
    ELSE [m EXCEPT !.checked = TRUE]

\* proc.start() (line 135): the new process is a copy of this one, taken
\* when it starts; it keeps the mysocks tag the copy holds.
startProcess(m, exitFpr, circID) ==
    [m EXCEPT !.procs = Append(@, [exitFpr |-> exitFpr, circID |-> circID,
                                   tag |-> m.mysocksTag])]

\* As newCircuit, with the process started before mysocks.setqueue is called.
newCircuit_StartFirst(m, circEvent) ==
    IF circEvent.status \notin ourCircuitEvents THEN m
    ELSE IF circEvent.status \in {"FAILED", "CLOSED"}
    THEN [m EXCEPT !.stats.failedCircuits = @ + 1]
    ELSE LET exitFpr == circEvent.path[Len(circEvent.path)][1]
             m1 == startProcess([m EXCEPT !.stats.successfulCircuits = @ + 1],
                                exitFpr, circEvent.id)
         IN  [m1 EXCEPT !.socketsocket = "socksocket",
                        !.mysocksTag = circEvent.id]

\* As newCircuit, with the first hop of the path taken for the exit.
newCircuit_FirstHop(m, circEvent) ==
    IF circEvent.status \notin ourCircuitEvents THEN m
    ELSE IF circEvent.status \in {"FAILED", "CLOSED"}
    THEN [m EXCEPT !.stats.failedCircuits = @ + 1]
    ELSE LET exitFpr == circEvent.path[1][1]
             m1 == [m EXCEPT !.stats.successfulCircuits = @ + 1,
                             !.socketsocket = "socksocket",
                             !.mysocksTag = circEvent.id]
         IN  startProcess(m1, exitFpr, circEvent.id)

newCircuit(m, circEvent) ==
    IF circEvent.status \notin ourCircuitEvents THEN m
    ELSE IF circEvent.status \in {"FAILED", "CLOSED"}
    THEN [m EXCEPT !.stats.failedCircuits = @ + 1]
    ELSE LET exitFpr == circEvent.path[Len(circEvent.path)][1]
             m1 == [m EXCEPT !.stats.successfulCircuits = @ + 1,
                             !.socketsocket = "socksocket",
                             !.mysocksTag = circEvent.id]
         IN  startProcess(m1, exitFpr, circEvent.id)

\* util.getSourcePort
getSourcePort(streamEvent) == streamEvent.source

----------------------------------------------------------------------------
(* The Tor daemon's side: what it can report next.                         *)

Requested == {CircuitIDs[i] : i \in 1..stats.totalCircuits}

Path(c) == << <<"guard", "g">>, <<"middle", "m">>, <<"exit" \o c, "e">> >>

CircuitEvent(c, status) ==
    [kind |-> "CircuitEvent", id |-> c, status |-> status, path |-> Path(c),
     source |-> NoPort]

\* source: the port getSourcePort finds in the event's text, NoPort if none
StreamEvent(i, status, source) ==
    [kind |-> "StreamEvent", id |-> StreamIDs[i], status |-> status, path |-> <<>>,
     source |-> source]

NoEvent == [kind |-> "none", id |-> None, status |-> None, path |-> <<>>,
            source |-> NoPort]

\* The handler after __init__, for a scan of n circuits, none reported yet.
InitScan(n) ==
    /\ stats = [totalCircuits |-> n, successfulCircuits |-> 0, failedCircuits |-> 0]
    /\ finishedStreams = 0
    /\ attachers = <<>>
    /\ queue = <<>>
    /\ socketsocket = _orgsocket
    /\ mysocksTag = None
    /\ procs = <<>>
    /\ torCtrl = EmptyBag
    /\ exited = FALSE
    /\ dpc = "idle"
    /\ ev = NoEvent
    /\ raised = "none"
    /\ checked = FALSE
    /\ cpc = "get"
    /\ cmsg = Sentinel
    /\ circ = [c \in {CircuitIDs[i] : i \in 1..stats.totalCircuits} |-> "launched"]
    /\ streams = <<>>
    /\ raced = {}
    /\ observed = [p \in Ports |-> <<>>]
    /\ consumed = [p \in Ports |-> <<>>]

Init == \E n \in 1..(MaxLoad - 1) : InitScan(n)

----------------------------------------------------------------------------
(* Dispatcher thread: newEvent, called once per event, one call at a time. *)
(* A call that touches the attachers dictionary takes two steps, the       *)
(* membership test and what follows it; attach_stream and the counters     *)
(* are not shared with the consumer thread.                                *)

Terminal == {"CLOSED", "FAILED", "DETACHED"}

\* As newStreamHead, with Detached not taken for the end of a stream.
newStreamHead_NoDetached(m, streamEvent) ==
    IF streamEvent.status \notin ourStreamEvents THEN m
    ELSE IF streamEvent.status \in {"CLOSED", "FAILED"}
    THEN [m EXCEPT !.finishedStreams = @ + 1]
    ELSE m

\* newStream up to the source port check (lines 146-159)
newStreamHead(m, streamEvent) ==
    IF streamEvent.status \notin ourStreamEvents THEN m
    ELSE IF streamEvent.status \in Terminal
    THEN [m EXCEPT !.finishedStreams = @ + 1]
    ELSE m

\* As reachesAttachers, without the test of the source port.
reachesAttachers_AnyPort(streamEvent) ==
    /\ streamEvent.status \in ourStreamEvents
    /\ streamEvent.status \notin Terminal

\* newStream goes on to the attachers dictionary (line 163)
reachesAttachers(streamEvent) ==
    /\ streamEvent.status \in ourStreamEvents
    /\ streamEvent.status \notin Terminal
    /\ getSourcePort(streamEvent) # NoPort

\* lines 164-165: attacher = self.attachers[sourcePort]; attacher(streamID=...)
newStreamAttach(m, streamEvent, accepted) ==
    LET sourcePort == getSourcePort(streamEvent)
        kw == callKeywords(m.attachers[sourcePort], streamEvent.id, None)
    IN  _attachStream(m, kw.streamID, kw.circuitID, accepted, sourcePort)

\* lines 172-173: self.attachers[sourcePort] = partial(_attachStream, streamID=...)
newStreamStore(m, streamEvent) ==
    [m EXCEPT !.attachers = setitem(@, getSourcePort(streamEvent),
                                    partial(streamEvent.id, None))]

DispatcherMid(p) == dpc \in {"ns164", "ns172"} /\ ev.source = p
ConsumerMid(p) == cpc \in {"qr75", "qr77", "qr79"} /\ cmsg[2][2] = p

AfterCheck(m) == IF m.exited THEN "exited" ELSE "idle"

\* The statuses Tor can report for a circuit in state st, and the state after.
CircNext(st, status) ==
    CASE st = "launched" /\ status = "EXTENDED" -> "launched"
      [] st = "launched" /\ status = "BUILT"    -> "built"
      [] st = "launched" /\ status = "FAILED"   -> "failed"
      [] st = "built"    /\ status = "CLOSED"   -> "closed"
      [] OTHER -> "never"

StreamNext(st, status) ==
    CASE st = "created"  /\ status \in {"NEW", "NEWRESOLVE"} -> "new"
      [] st = "new"      /\ status = "SUCCEEDED" -> "new"
      [] st = "new"      /\ status = "DETACHED"  -> "detached"
      [] st \in {"new", "detached"} /\ status = "FAILED" -> "failed"
      [] st \in {"new", "detached", "failed"} /\ status = "CLOSED" -> "closed"
      [] OTHER -> "never"

\* newEvent for a circuit event: newCircuit, then isFinished
NewEventCircuit(c, status) ==
    /\ dpc = "idle"
    /\ CircNext(circ[c], status) # "never"
    /\ circ' = [circ EXCEPT ![c] = CircNext(circ[c], status)]
    /\ LET m == isFinished(newCircuit([Mem EXCEPT !.checked = FALSE],
                                      CircuitEvent(c, status)))
       IN  Commit(m) /\ dpc' = AfterCheck(m)
    /\ raised' = "none"
    /\ UNCHANGED <<ev, cpc, cmsg, streams, raced, observed, consumed>>

\* newEvent for a stream event: newStream up to the membership test of
\* line 163, or, on the paths that return before it, to the end of newEvent
NewEventStream(i, status, source) ==
    /\ dpc = "idle"
    /\ StreamNext(streams[i].st, status) # "never"
    /\ streams' = [streams EXCEPT ![i].st = StreamNext(streams[i].st, status)]
    /\ raised' = "none"
    /\ LET e == StreamEvent(i, status, source)
           sourcePort == getSourcePort(e)
           m0 == [Mem EXCEPT !.checked = FALSE]
       IN  IF reachesAttachers(e)
           THEN /\ Commit(m0)
                /\ ev' = e
                /\ dpc' = IF has_key(attachers, sourcePort) THEN "ns164" ELSE "ns172"
                /\ raced' = IF ConsumerMid(sourcePort) THEN raced \cup {sourcePort}
                            ELSE raced
           ELSE /\ LET m == isFinished(newStreamHead(m0, e))
                   IN  Commit(m) /\ dpc' = AfterCheck(m)
                /\ ev' = ev
                /\ raced' = raced
    /\ UNCHANGED <<cpc, cmsg, circ, observed, consumed>>

\* lines 164-166.  The read raises KeyError if the consumer has removed the
\* entry since the test.  Line 166 is "del self.attachers[port]": newStream
\* has no name "port" and neither has the module, so it raises NameError.
\* Either error leaves newEvent before isFinished.
NewStreamAttach(accepted) ==
    /\ dpc = "ns164"
    /\ IF has_key(attachers, getSourcePort(ev))
       THEN /\ Commit(newStreamAttach(Mem, ev, accepted))
            /\ raised' = "NameError"
       ELSE /\ Commit(Mem)
            /\ raised' = "KeyError"
    /\ dpc' = "idle"
    /\ ev' = NoEvent
    /\ observed' = [observed EXCEPT ![getSourcePort(ev)] = Append(@, ev.id)]
    /\ UNCHANGED <<cpc, cmsg, circ, streams, raced, consumed>>

\* lines 172-173, then newEvent's isFinished
NewStreamStore ==
    /\ dpc = "ns172"
    /\ LET m == isFinished(newStreamStore(Mem, ev))
       IN  Commit(m) /\ dpc' = AfterCheck(m)
    /\ ev' = NoEvent
    /\ observed' = [observed EXCEPT ![getSourcePort(ev)] = Append(@, ev.id)]
    /\ UNCHANGED <<raised, cpc, cmsg, circ, streams, raced, consumed>>

\* line 200: "Received unexpected event: " % str(event) has no conversion
\* for its argument: TypeError, which leaves newEvent before isFinished.
NewEventOther ==
    /\ dpc = "idle"
    /\ raised' = "TypeError"
    /\ checked' = FALSE
    /\ UNCHANGED <<stats, finishedStreams, attachers, queue, socketsocket, mysocksTag,
                   procs, torCtrl, exited, dpc, ev, cpc, cmsg,
                   circ, streams, raced, observed, consumed>>

----------------------------------------------------------------------------
(* Consumer thread: queueReader.                                           *)

\* lines 75-76: attacher = self.attachers[port]; attacher(circuitID=circID)
queueReaderAttach(m, msg, accepted) ==
    LET port == msg[2][2]
        kw == callKeywords(m.attachers[port], None, msg[1])
    IN  _attachStream(m, kw.streamID, kw.circuitID, accepted, port)

\* lines 79-80: self.attachers[port] = partial(_attachStream, circuitID=circID)
queueReaderStore(m, msg) ==
    [m EXCEPT !.attachers = setitem(@, msg[2][2], partial(None, msg[1]))]

\* As queueGet, for a queue that hands out the newest message first.
queueGet_Lifo(q) == [item |-> q[Len(q)], rest |-> SubSeq(q, 1, Len(q) - 1)]

\* line 63: self.queue.get() on a non-empty queue takes the oldest message
queueGet(q) == [item |-> Head(q), rest |-> Tail(q)]

\* lines 63-74: take a message; the sentinel ends the loop; otherwise test
\* whether the port has an entry
QueueGet ==
    /\ cpc = "get"
    /\ queue # <<>>
    /\ queue' = queueGet(queue).rest
    /\ LET circID == queueGet(queue).item[1]
           sockname == queueGet(queue).item[2]
       IN  IF circID = None /\ sockname = None
           THEN cpc' = "stopped" /\ raced' = raced /\ cmsg' = cmsg
           ELSE /\ cmsg' = queueGet(queue).item
                /\ cpc' = IF has_key(attachers, sockname[2]) THEN "qr75" ELSE "qr79"
                /\ raced' = IF DispatcherMid(sockname[2]) THEN raced \cup {sockname[2]}
                            ELSE raced
    /\ UNCHANGED <<stats, finishedStreams, attachers, socketsocket, mysocksTag, procs,
                   torCtrl, exited, dpc, ev, raised, checked, circ, streams, observed, consumed>>

\* lines 75-76; KeyError ends the thread
QueueAttach(accepted) ==
    /\ cpc = "qr75"
    /\ IF has_key(attachers, cmsg[2][2])
       THEN Commit(queueReaderAttach(Mem, cmsg, accepted)) /\ cpc' = "qr77"
                /\ cmsg' = cmsg
       ELSE Commit(Mem) /\ cpc' = "crashed" /\ cmsg' = Sentinel
    /\ UNCHANGED <<dpc, ev, raised, circ, streams, raced, observed, consumed>>

\* line 77: del self.attachers[port]; KeyError ends the thread
QueueDel ==
    /\ cpc = "qr77"
    /\ IF has_key(attachers, cmsg[2][2])
       THEN /\ attachers' = delitem(attachers, cmsg[2][2])
            /\ cpc' = "get"
            /\ consumed' = [consumed EXCEPT ![cmsg[2][2]] = Append(@, cmsg[1])]
       ELSE /\ attachers' = attachers
            /\ cpc' = "crashed"
            /\ consumed' = consumed
    /\ cmsg' = Sentinel
    /\ UNCHANGED <<stats, finishedStreams, queue, socketsocket, mysocksTag, procs,
                   torCtrl, exited, dpc, ev, raised, checked, circ, streams, raced,
                   observed>>

\* lines 79-80
QueueStore ==
    /\ cpc = "qr79"
    /\ Commit(queueReaderStore(Mem, cmsg))
    /\ cpc' = "get"
    /\ consumed' = [consumed EXCEPT ![cmsg[2][2]] = Append(@, cmsg[1])]
    /\ cmsg' = Sentinel
    /\ UNCHANGED <<dpc, ev, raised, circ, streams, raced, observed>>

----------------------------------------------------------------------------
(* A probing module's process opens a connection from local port p: the    *)
(* socket wrapper reports (tag, sockname) on the queue, and Tor will       *)
(* announce the stream.                                                    *)

Connect(k, p) ==
    /\ queue' = Append(queue, <<procs[k].tag, <<"127.0.0.1", p>>>>)
    /\ streams' = Append(streams, [port |-> p, owner |-> procs[k].circID,
                                   st |-> "created"])
    /\ UNCHANGED <<stats, finishedStreams, attachers, socketsocket, mysocksTag, procs,
                   torCtrl, exited, dpc, ev, raised, checked, cpc, cmsg,
                   circ, raced, observed, consumed>>

CircStatuses == {"EXTENDED", "BUILT", "FAILED", "CLOSED"}
StreamStatuses == {"NEW", "NEWRESOLVE", "SUCCEEDED", "DETACHED", "FAILED", "CLOSED"}

Next ==
    \/ \E c \in Requested, status \in CircStatuses : NewEventCircuit(c, status)
    \/ \E i \in 1..Len(streams), status \in StreamStatuses :
          \E source \in {streams[i].port, NoPort} : NewEventStream(i, status, source)
    \/ \E accepted \in BOOLEAN : NewStreamAttach(accepted)
    \/ NewStreamStore
    \/ NewEventOther
    \/ QueueGet
    \/ \E accepted \in BOOLEAN : QueueAttach(accepted)
    \/ QueueDel
    \/ QueueStore
    \/ \E k \in 1..Len(procs), p \in Ports :
          stats.totalCircuits + Len(streams) < MaxLoad /\ Connect(k, p)

Spec == Init /\ [][Next]_vars

\* queueReader runs on a thread of its own (line 48): a step it can take is
\* not put off for ever.
SpecFair ==
    /\ Spec
    /\ WF_vars(QueueGet)
    /\ WF_vars(\E accepted \in BOOLEAN : QueueAttach(accepted))
    /\ WF_vars(QueueDel)
    /\ WF_vars(QueueStore)

----------------------------------------------------------------------------
(* The scenario of three circuits: A fails; B is built and its worker's    *)
(* report for port 5000 is consumed before Tor announces the stream; C is  *)
(* built and its stream from port 6000 is announced before its worker's    *)
(* report is consumed; both streams then close.                            *)

ScenarioPort(c) == IF c = "B" THEN 5000 ELSE 6000

StreamsOf(c) == {i \in 1..Len(streams) : streams[i].owner = c}

NextScenario ==
    \/ NewEventCircuit("A", "FAILED")
    \/ \E c \in {"B", "C"} : NewEventCircuit(c, "BUILT")
    \/ \E k \in 1..Len(procs) :
          StreamsOf(procs[k].circID) = {} /\ Connect(k, ScenarioPort(procs[k].circID))
    \/ \E i \in StreamsOf("B") :
          consumed[5000] # <<>> /\ NewEventStream(i, "NEW", 5000)
    \/ \E i \in StreamsOf("C") : NewEventStream(i, "NEW", 6000)
    \/ \E i \in 1..Len(streams) : NewEventStream(i, "CLOSED", streams[i].port)
    \/ \E accepted \in BOOLEAN : NewStreamAttach(accepted)
    \/ NewStreamStore
    \/ /\ queue # <<>>
       /\ Head(queue) = <<"C", <<"127.0.0.1", 6000>>>> => observed[6000] # <<>>
       /\ QueueGet
    \/ \E accepted \in BOOLEAN : QueueAttach(accepted)
    \/ QueueDel
    \/ QueueStore

SpecScenario == InitScan(3) /\ [][NextScenario]_vars

----------------------------------------------------------------------------
(* Properties.                                                             *)

\* The attach commands issued while working on port p.
AttachesAt(p) ==
    LET rs == {r \in BagToSet(torCtrl) : r.port = p}
    IN  [r \in rs |-> torCtrl[r]]

\* Port p was looked at once from each side, and neither thread is still
\* in the middle of it.
OneEach(p) ==
    /\ Len(observed[p]) = 1
    /\ Len(consumed[p]) = 1
    /\ ~DispatcherMid(p)
    /\ ~ConsumerMid(p)

\* The one attach command the rendezvous on port p should issue.
RightAttach(p) ==
    \E accepted \in BOOLEAN :
        AttachesAt(p) = SetToBag({[streamID |-> observed[p][1],
                                   circuitID |-> consumed[p][1],
                                   ok |-> accepted,
                                   port |-> p]})

\* C1: a port seen once by newStream and once by queueReader, in either
\* order, one call finished before the other began, has had exactly one
\* attach command, carrying that stream's ID and that report's circuit ID.
C1_OneAttachCommand ==
    \A p \in Ports : (OneEach(p) /\ p \notin raced) => RightAttach(p)

\* The report was consumed first and the stream event came second.
C1_Witness ==
    \E p \in Ports :
        /\ OneEach(p)
        /\ p \notin raced
        /\ raised = "NameError"
        /\ RightAttach(p)

\* C2: once both sides of a port are known, its entry is gone from the
\* attachers dictionary.
C2_EntryRemoved ==
    \A p \in Ports : (OneEach(p) /\ p \notin raced) => ~has_key(attachers, p)

\* C3: when the two threads work on the same port at once, the rendezvous
\* still issues exactly one attach command, and no dictionary access fails.
C3_AtomicRendezvous ==
    /\ \A p \in raced : OneEach(p) => RightAttach(p)
    /\ raised # "KeyError"
    /\ cpc # "crashed"

\* C4: the circuits counted as built or failed never outnumber the circuits
\* the scan requested.
C4_CircuitsWithinTotal ==
    stats.successfulCircuits + stats.failedCircuits <= stats.totalCircuits

\* C5: the streams counted as finished never outnumber the circuits counted
\* as built.
C5_StreamsWithinBuilt == finishedStreams <= stats.successfulCircuits

ScanComplete ==
    /\ stats.failedCircuits + stats.successfulCircuits = stats.totalCircuits
    /\ finishedStreams >= stats.successfulCircuits

\* C6: isFinished shuts the scan down exactly when all requested circuits
\* are counted and the finished streams are at least the built circuits:
\* after a call that evaluated it without shutting down the condition is
\* false, and after a shutdown it is true.  With every circuit failed it has
\* fired; with a circuit built and no finished stream it has not.
C6_CompletionIff ==
    /\ exited => ScanComplete
    /\ (checked /\ ~exited) => ~ScanComplete
    /\ (/\ checked
        /\ stats.failedCircuits = stats.totalCircuits
        /\ stats.successfulCircuits = 0) => exited
    /\ (stats.successfulCircuits > 0 /\ finishedStreams = 0) => ~exited

\* The scan shut down with a built circuit and a finished stream.
C6_Witness ==
    exited /\ stats.successfulCircuits > 0 /\ finishedStreams > 0

\* A step in which a call of newEvent ends.
NewEventEnds ==
    /\ dpc' \in {"idle", "exited"}
    /\ <<dpc, raised, checked>>' # <<dpc, raised, checked>>

\* C7: no call of newEvent ends without having evaluated isFinished.
C7_AlwaysChecked == [][NewEventEnds => checked']_vars

\* C8: an event that is neither a circuit event nor a stream event is
\* handled without an error and without any effect.
C8_OtherEventIgnored ==
    [][NewEventOther =>
        /\ raised' = "none"
        /\ UNCHANGED <<stats, finishedStreams, attachers, torCtrl, procs>>]_vars

\* C10: after the daemon rejected the attach command of a port, the port's
\* entry is gone, no error left newEvent, and the consumer thread lives.
C10_RejectionContained ==
    \A p \in Ports :
        (/\ OneEach(p)
         /\ p \notin raced
         /\ \E r \in BagToSet(AttachesAt(p)) : ~r.ok)
        => (/\ ~has_key(attachers, p)
            /\ cpc # "crashed")

BothClosed ==
    \A c \in {"B", "C"} :
        StreamsOf(c) # {} /\ \A i \in StreamsOf(c) : streams[i].st = "closed"

\* C9: in the scenario of three circuits, the stream of B and the stream of
\* C each get exactly one attach command, to their own circuit; the scan
\* does not shut down before both streams have closed, and has shut down
\* once they have and A has failed.
C9_Scenario ==
    /\ \A c \in {"B", "C"} :
          LET p == ScenarioPort(c)
          IN  /\ BagCardinality(AttachesAt(p)) <= 1
              /\ OneEach(p) => RightAttach(p)
              /\ \A r \in BagToSet(AttachesAt(p)) :
                    /\ r.circuitID = c
                    /\ \E i \in StreamsOf(c) : r.streamID = StreamIDs[i]
    /\ exited => BothClosed
    /\ (BothClosed /\ circ["A"] = "failed") => exited

\* The scenario ran to its end: both attach commands issued, scan shut down.
C9_Witness ==
    /\ exited
    /\ OneEach(5000) /\ RightAttach(5000)
    /\ OneEach(6000) /\ RightAttach(6000)
    /\ circ = [c \in {"A", "B", "C"} |->
                 IF c = "A" THEN "failed" ELSE "built"]


\* C11: every started worker carries the ID of the circuit whose BUILT event
\* started it as its tag, whatever circuits were built after it, and every
\* report on the queue names the circuit of the worker that sent it.
C11_WorkerKeepsItsTag ==
    /\ \A k \in 1..Len(procs) : procs[k].tag = procs[k].circID
    /\ \A j \in 1..Len(queue) :
          queue[j] # Sentinel =>
              \E i \in 1..Len(streams) :
                  queue[j] = <<streams[i].owner, <<"127.0.0.1", streams[i].port>>>>

\* Two workers run, and the first reports after the second was started.
C11_Witness ==
    /\ Len(procs) = 2
    /\ mysocksTag = procs[2].circID
    /\ \E j \in 1..Len(queue) : queue[j][1] = procs[1].circID


\* The stream i has reported Closed, Failed or Detached.
StreamOver(i) == streams[i].st \in {"detached", "failed", "closed"}

\* C12: when the scan has shut down, every circuit that was counted as
\* built has a stream of its own that reported Closed, Failed or Detached.
C12_EveryBuiltCircuitServed ==
    exited => \A k \in 1..Len(procs) :
                  \E i \in StreamsOf(procs[k].circID) : StreamOver(i)

\* All requested circuits have reported Built, Failed or Closed, every built
\* circuit has a stream, every stream has reported a terminal status, and
\* the dispatcher is not inside a handler.
Settled ==
    /\ \A c \in Requested : circ[c] \in {"built", "failed", "closed"}
    /\ \A k \in 1..Len(procs) : StreamsOf(procs[k].circID) # {}
    /\ \A i \in 1..Len(streams) : StreamOver(i)
    /\ dpc \in {"idle", "exited"}

\* C13: once all circuits are resolved and all streams are finished, the
\* event that made it so has shut the scan down; no scan stays open with
\* nothing left to wait for.
C13_SettledScanCompletes == Settled => exited


\* The report sent for the i-th connection, and the reports still queued.
Report(i) == <<streams[i].owner, <<"127.0.0.1", streams[i].port>>>>
Waiting == SelectSeq(queue, LAMBDA x : x # Sentinel)

\* How many reports the consumer has taken, and how many it is through with.
Taken == Len(streams) - Len(Waiting)
Handled == IF cpc \in {"qr75", "qr77", "qr79"} THEN Taken - 1 ELSE Taken

\* The circuit IDs of the first n reports for port p, oldest first.
FirstReports(n, p) ==
    LET sel == SelectSeq(SubSeq(streams, 1, n), LAMBDA r : r.port = p)
    IN  [j \in 1..Len(sel) |-> sel[j].owner]

\* The consumer is where the oldest reports have put it: the reports
\* through with are the oldest ones, each handled once, the one in hand is
\* the next, what waits is the rest in order, and no report has ended it.
ConsumerInOrder ==
    /\ cpc # "crashed"
    /\ \A i \in 1..Len(Waiting) : Waiting[i] = Report(Taken + i)
    /\ cpc \in {"qr75", "qr77", "qr79"} => cmsg = Report(Taken)
    /\ \A p \in Ports : consumed[p] = FirstReports(Handled, p)
    /\ cpc = "stopped" => exited /\ Sentinel \notin {queue[j] : j \in 1..Len(queue)}

\* The consumer stops on the sentinel and on nothing else, and once it has
\* stopped, no report is taken from the queue or handled.
ConsumerStopsOnSentinel ==
    /\ cpc # "stopped" /\ cpc' = "stopped" => Head(queue) = Sentinel /\ cpc = "get"
    /\ cpc = "get" /\ queue # <<>> /\ Head(queue) = Sentinel /\ queue' = Tail(queue)
          => cpc' = "stopped"
    /\ cpc = "stopped" =>
          /\ cpc' = "stopped" /\ consumed' = consumed
          /\ attachers' = attachers /\ torCtrl' = torCtrl
          /\ \A j \in 1..Len(queue) : queue'[j] = queue[j]

\* C14: queueReader handles the reports oldest first, each one once, leaves
\* its loop exactly when it takes the sentinel off the queue, and handles
\* nothing that was enqueued after the sentinel.
C14_ConsumerFifoUntilSentinel == []ConsumerInOrder /\ [][ConsumerStopsOnSentinel]_vars

\* The consumer has handled a report and stopped, and a report that was
\* enqueued after the sentinel is left on the queue.
C14_Witness ==
    /\ cpc = "stopped"
    /\ \E p \in Ports : consumed[p] # <<>>
    /\ queue # <<>>


\* The sentinel is on the queue.
SentinelQueued == \E j \in 1..Len(queue) : queue[j] = Sentinel

\* Once the scan has shut down, socket.socket is the original class again,
\* the sentinel has been put on the queue, and the dispatcher has left the
\* process; before that, no sentinel is on the queue and the consumer runs.
ShutdownDone ==
    /\ exited => /\ socketsocket = _orgsocket
                 /\ SentinelQueued \/ cpc = "stopped"
                 /\ dpc = "exited"
    /\ ~exited => ~SentinelQueued /\ cpc # "stopped"

\* C15: completion restores socket.socket, enqueues the sentinel and exits,
\* and the consumer thread then comes to its end; no sentinel is enqueued
\* before completion.
C15_ShutdownStopsConsumer == []ShutdownDone /\ (exited ~> cpc = "stopped")

\* A scan that had redirected the sockets for a worker has shut down, and
\* the consumer has stopped.
C15_Witness ==
    /\ exited
    /\ Len(procs) > 0
    /\ socketsocket = _orgsocket
    /\ cpc = "stopped"


\* What a circuit event for c with the given status does to the handler.
CircuitEventEffect(c, status) ==
    /\ status \in {"FAILED", "CLOSED"} =>
          /\ stats' = [stats EXCEPT !.failedCircuits = @ + 1]
          /\ UNCHANGED <<procs, attachers, mysocksTag, finishedStreams, torCtrl>>
    /\ status = "BUILT" =>
          /\ stats' = [stats EXCEPT !.successfulCircuits = @ + 1]
          /\ Len(procs') = Len(procs) + 1
          /\ SubSeq(procs', 1, Len(procs)) = procs
          /\ procs'[Len(procs')].circID = c
          /\ procs'[Len(procs')].exitFpr = "exit" \o c
          /\ UNCHANGED <<attachers, finishedStreams, torCtrl>>
    /\ status \notin {"FAILED", "CLOSED", "BUILT"} =>
          UNCHANGED <<stats, finishedStreams, attachers, queue, socketsocket,
                      mysocksTag, procs, torCtrl, exited>>

\* C16: a Failed or Closed circuit event adds one to failedCircuits and
\* starts no worker; a Built event adds one to successfulCircuits and starts
\* one worker for the circuit and the last hop of its path; an event with
\* another status changes nothing.
C16_CircuitEventEffects ==
    [][\A c \in Requested, status \in CircStatuses :
          NewEventCircuit(c, status) => CircuitEventEffect(c, status)]_vars

\* A circuit was built and its worker started for the exit relay, and a
\* circuit event was counted as a failure.
C16_Witness ==
    /\ Len(procs) > 0
    /\ procs[1].exitFpr = Path(procs[1].circID)[3][1]
    /\ stats.successfulCircuits > 0
    /\ stats.failedCircuits > 0


\* What a stream event with the given status does to the handler, unless
\* the status is New or NewResolve.
StreamEventEffect(status) ==
    /\ status \in {"CLOSED", "FAILED", "DETACHED"} =>
          /\ finishedStreams' = finishedStreams + 1
          /\ UNCHANGED <<torCtrl, attachers, stats, procs, mysocksTag>>
          /\ raised' = "none"
    /\ status \notin {"NEW", "NEWRESOLVE", "CLOSED", "FAILED", "DETACHED"} =>
          /\ UNCHANGED <<stats, finishedStreams, attachers, queue, socketsocket,
                         mysocksTag, procs, torCtrl, exited>>
          /\ raised' = "none" /\ dpc' = "idle"

\* C17: a Closed, Failed or Detached stream event adds one to
\* finishedStreams, issues no attach command and leaves attachers and the
\* circuit counters alone; a stream event with a status outside New,
\* NewResolve, Closed, Failed, Detached changes nothing.
C17_StreamEventEffects ==
    [][\A i \in 1..Len(streams), status \in StreamStatuses :
          \A source \in {streams[i].port, NoPort} :
              NewEventStream(i, status, source) => StreamEventEffect(status)]_vars

\* A stream was announced, left an entry in attachers, and was detached:
\* the entry is still there and one stream is counted as finished.
C17_Witness ==
    \E i \in 1..Len(streams) :
        /\ streams[i].st = "detached"
        /\ finishedStreams = 1
        /\ has_key(attachers, streams[i].port)

\* C18: a New or NewResolve stream event without a source port is dropped:
\* attachers, the attach commands, the counters, the queue and the workers
\* are as before, no exception leaves the handler, and the dispatcher is
\* ready for the next event.
C18_MalformedStreamDropped ==
    [][\A i \in 1..Len(streams), status \in {"NEW", "NEWRESOLVE"} :
          NewEventStream(i, status, NoPort) =>
              /\ UNCHANGED <<stats, finishedStreams, attachers, torCtrl, queue,
                             socketsocket, mysocksTag, procs, exited>>
              /\ raised' = "none"
              /\ dpc' = "idle"]_vars

\* A stream was announced without a source port while its worker's report
\* had been handled: the entry of the port waits, and nothing was attached.
C18_Witness ==
    \E i \in 1..Len(streams) :
        /\ streams[i].st = "new"
        /\ dpc = "idle" /\ raised = "none"
        /\ consumed[streams[i].port] # <<>>
        /\ observed[streams[i].port] = <<>>
        /\ has_key(attachers, streams[i].port)
        /\ torCtrl = EmptyBag


\* C19: every attach command the controller received names a stream and a
\* circuit; none was issued with None for either.
C19_AttachHasBothHalves ==
    \A r \in BagToSet(torCtrl) : r.streamID # None /\ r.circuitID # None

\* C20: when the scan has shut down, attachers is empty, no worker report
\* waits on the queue and the consumer has none in hand, so that nothing is
\* left to attach.
C20_NothingPendingAtCompletion ==
    exited => /\ attachers = <<>>
              /\ Waiting = <<>>
              /\ cpc \notin {"qr75", "qr77", "qr79"}

====
